---- MODULE Spec2Model ----
(***************************************************************************)
(* Luc_Meme_Engine: the media job pipeline of the three server sources     *)
(* (src/server.js, src/unnamed/part_000, src/unnamed/part_001).            *)
(*                                                                         *)
(* A job is one request to POST /api/add-overlay ("single"),               *)
(* /api/stitch-videos ("stitch") or /api/add-image-overlay ("image").      *)
(* Every await of a handler is one step of the job; the outcome of the     *)
(* awaited operation (network transfer, engine run, filesystem call) is    *)
(* chosen by the environment.  The filesystem is the set of working        *)
(* directories under TEMP_DIR and the set of artifact files in OUTPUT_DIR. *)
(***************************************************************************)
EXTENDS Naturals, Integers, Sequences, FiniteSets, TLC

\* Number of job requests the model accepts (each gets its own uuid).
MaxJobs == 2

\* Largest videos array of a stitch request.
MaxScenes == 2

VARIABLES
    ver,        \* which server source is running
    job,        \* job id -> the state of that request's handler
    workdir,    \* job ids whose directory <TEMP_DIR>/<jobId> exists
    output,     \* artifact files in OUTPUT_DIR, as <<kind, jobId>>
    statusResp, \* the last response of GET /api/status/:jobId
    call        \* a helper of the handlers run on its own: its arguments and locals

vars == <<ver, job, workdir, output, statusResp, call>>

\* The three server sources of the repository.
Versions == {"server", "part_000", "part_001"}

\* uuidv4(): every request gets an id no other request has.
JobIds == 1 .. MaxJobs

\* Ids a client can ask about: the job ids and one id no job ever gets.
QueryIds == 0 .. MaxJobs

\* The sources whose text holds the route GET /api/status/:jobId (the text of
\* part_001 ends inside its stream route, before any status route).
StatusRoutes == {"server", "part_000"}

\* Job variants each source routes.
Variants(v) == IF v = "server" THEN {"single", "stitch"}
               ELSE {"single", "stitch", "image"}

----------------------------------------------------------------------------
\* The ordered awaits of each handler's try block.

Repeat(x, n) == [k \in 1 .. n |-> x]

\* app.post('/api/add-overlay')
AddOverlayStages(v, overlay) ==
    <<"mkdir", "fetch_video", "fetch_audio", "probe", "trim">>
    \o (IF v # "server" /\ overlay THEN <<"fetch_overlay">> ELSE <<>>)
    \o <<"compose", "probe_final", "stat", "rm">>

\* Faulty variant of StitchStages: the scene videos fetched before the audio.
StitchStagesScenesFirst(v, overlay, n) ==
    <<"mkdir">>
    \o Repeat("fetch_scene", n)
    \o <<"fetch_audio">>
    \o (IF v # "server" /\ overlay THEN <<"fetch_overlay">> ELSE <<>>)
    \o <<"concat", "probe", "trim", "compose", "probe_final", "stat", "rm">>

\* app.post('/api/stitch-videos')
StitchStages(v, overlay, n) ==
    <<"mkdir", "fetch_audio">>
    \o (IF v # "server" /\ overlay THEN <<"fetch_overlay">> ELSE <<>>)
    \o Repeat("fetch_scene", n)
    \o <<"concat", "probe", "trim", "compose", "probe_final", "stat", "rm">>

\* app.post('/api/add-image-overlay')
ImageStages ==
    <<"mkdir", "fetch_base", "fetch_overlay", "overlay_image", "stat", "rm">>

Stages(v, r) ==
    CASE r.variant = "single" -> AddOverlayStages(v, r.overlay)
      [] r.variant = "stitch" -> StitchStages(v, r.overlay, r.nvideos)
      [] OTHER -> ImageStages

\* The await of the stitch handler whose continuation sorts req.body.videos:
\* videos.sort(...) stands behind the download of the audio and of the
\* overlay (if any) and before the loop that downloads the scenes.
SortAfterStep(v, overlay) == IF v # "server" /\ overlay THEN 3 ELSE 2

\* The artifact a variant writes: final_video_<jobId>.mp4 or final_image_<jobId>.png
ArtifactKind(variant) == IF variant = "image" THEN "image" ELSE "video"

\* Faulty variant of FinalDir: the artifact written inside the working directory.
FinalDirInJobDir(variant) == "jobdir"

\* const finalVideoPath = path.join(OUTPUT_DIR, ...): the artifact is written
\* under the output root, not under the job's working directory.
FinalDir(variant) == "output"

FinalPath(j) == <<ArtifactKind(job[j].variant), j>>

----------------------------------------------------------------------------
\* Request bodies, each field present or missing.  A field that is missing,
\* null or the empty string is falsy; videos is missing, a non-array value or
\* an array of nvideos scene entries (0 .. MaxScenes of them).  scene_number is
\* any JSON value: sceneTarget is NoTarget when every scene file name stays
\* inside the working directory, and x when the scene_number of the first
\* entry is "/../../output/final_video_<x>", whose file name path.join
\* resolves to OUTPUT_DIR/final_video_<x>.mp4.

NoTarget == 0 - 1

SingleRequests ==
    [variant : {"single"}, final_stitch_video : BOOLEAN,
     final_music_url : BOOLEAN, overlay_image_url : BOOLEAN]

StitchRequests ==
    [variant : {"stitch"}, videos : {"missing", "notarray"}, nvideos : {0},
     sceneTarget : {NoTarget},
     mv_audio : BOOLEAN, overlay_image_url : BOOLEAN]
    \cup
    [variant : {"stitch"}, videos : {"array"}, nvideos : 0 .. MaxScenes,
     sceneTarget : {NoTarget},
     mv_audio : BOOLEAN, overlay_image_url : BOOLEAN]
    \cup
    [variant : {"stitch"}, videos : {"array"}, nvideos : 1 .. MaxScenes,
     sceneTarget : QueryIds,
     mv_audio : BOOLEAN, overlay_image_url : BOOLEAN]

ImageRequests ==
    [variant : {"image"}, final_image_url : BOOLEAN, overlay_image_url : BOOLEAN]

Requests(v) ==
    SingleRequests \cup StitchRequests
    \cup (IF "image" \in Variants(v) THEN ImageRequests ELSE {})

\* A required field of the request is missing, or its videos is no array.
MissingField(req) ==
    CASE req.variant = "single" ->
            ~req.final_stitch_video \/ ~req.final_music_url
      [] req.variant = "stitch" ->
            req.videos # "array" \/ ~req.mv_audio
      [] OTHER ->
            ~req.final_image_url \/ ~req.overlay_image_url

\* Faulty variant of ValidRequest: the stitch handler without !Array.isArray(videos).
ValidRequestNoArrayCheck(req) ==
    CASE req.variant = "single" ->
            req.final_stitch_video /\ req.final_music_url
      [] req.variant = "stitch" ->
            req.videos # "missing" /\ req.mv_audio
      [] OTHER ->
            req.final_image_url /\ req.overlay_image_url

\* The if (...) return res.status(400) of each handler.
ValidRequest(req) ==
    CASE req.variant = "single" ->
            req.final_stitch_video /\ req.final_music_url
      [] req.variant = "stitch" ->
            req.videos = "array" /\ req.mv_audio
      [] OTHER ->
            req.final_image_url /\ req.overlay_image_url

\* A handler that has not been entered.
IdleJob ==
    [phase |-> "idle", variant |-> "none", missing |-> FALSE,
     overlay |-> FALSE, nvideos |-> 0, sceneTarget |-> NoTarget,
     step |-> 0, busy |-> FALSE, dur |-> "none",
     failed |-> FALSE, fetchFailed |-> FALSE, finalized |-> FALSE,
     composited |-> FALSE, degraded |-> FALSE,
     sent |-> 0,
     http |-> 0, success |-> "none", respJobId |-> 0, overlayApplied |-> "none"]

\* The handler after const jobId = uuidv4() and the validation of req.body.
\* server.js reads no overlay_image_url.
AcceptedJob(v, req) ==
    [IdleJob EXCEPT
        !.phase = "run",
        !.variant = req.variant,
        !.missing = MissingField(req),
        !.overlay = (v # "server" /\ req.overlay_image_url),
        !.nvideos = IF req.variant = "stitch" THEN req.nvideos ELSE 0,
        !.sceneTarget = IF req.variant = "stitch" THEN req.sceneTarget
                        ELSE NoTarget,
        !.step = 1]

\* Faulty variant of RejectedJob: res.status(400).json({error}) without
\* return, the handler goes on into its try block.
RejectedJobNoReturn(req) ==
    [IdleJob EXCEPT !.phase = "run", !.variant = req.variant,
                    !.missing = MissingField(req), !.step = 1,
                    !.sent = 1, !.http = 400]

\* return res.status(400).json({error}): no success field, no jobId.  sent
\* counts the responses the handler has sent.
RejectedJob(req) ==
    [IdleJob EXCEPT !.phase = "done", !.variant = req.variant,
                    !.missing = MissingField(req), !.sent = 1, !.http = 400]

----------------------------------------------------------------------------
\* Positions of a handler.

Cur(j) ==
    IF job[j].phase = "run" THEN Stages(ver, job[j])[job[j].step] ELSE "none"

\* The awaited operation resolved: go on to the next await, or to res.json.
Advanced(v, r) ==
    IF r.step = Len(Stages(v, r))
    THEN [r EXCEPT !.phase = "respond"]
    ELSE [r EXCEPT !.step = @ + 1]

\* Faulty variant of Thrown: a handler that starts its try block over.
ThrownStartsOver(r) == [r EXCEPT !.step = 1, !.failed = TRUE]

\* The awaited operation rejected, or the handler threw: enter catch (error).
\* The catch block reads jobId and error.message only, so the locals of the
\* try block are dropped.  failed: a stage of the job has failed; fetchFailed:
\* a download of the job has failed; finalized: every stage up to the stat of
\* the written artifact had succeeded; degraded: the image engine had failed
\* and the base image was copied to the output path.
Thrown(r) ==
    [IdleJob EXCEPT !.phase = "catch", !.variant = r.variant,
                    !.sent = r.sent,
                    !.failed = TRUE, !.fetchFailed = r.fetchFailed,
                    !.finalized = r.finalized, !.degraded = r.degraded]

\* The awaited promise never settles: the handler stays at its await and
\* sends no response.
Stalled(r) ==
    [IdleJob EXCEPT !.phase = "stalled", !.variant = r.variant,
                    !.sent = r.sent,
                    !.failed = TRUE, !.fetchFailed = r.fetchFailed]

Running(r) == r.phase \notin {"idle", "done"}

\* The stitch handler of job j has sorted its videos and is still in its try block.
Sorted(j) ==
    /\ job[j].variant = "stitch"
    /\ job[j].phase = "run"
    /\ job[j].step > SortAfterStep(ver, job[j].overlay)

FetchStages == {"fetch_video", "fetch_audio", "fetch_overlay", "fetch_scene",
                "fetch_base"}

TypeOK ==
    /\ ver \in Versions
    /\ \A j \in JobIds :
          /\ job[j].phase \in {"idle", "run", "respond", "catch", "respond_err",
                                "stalled", "done"}
          /\ job[j].http \in {0, 200, 400, 500}
    /\ workdir \subseteq JobIds
    /\ output \subseteq ({"video", "image"} \X QueryIds)

----------------------------------------------------------------------------
\* Pieces of the handlers.

\* if (!videoDuration) throw new Error(...): server.js and part_000 have the
\* check after getVideoDuration, part_001 has none.
DurationChecked(v) == v # "part_001"

\* catch (error) { try { await fs.rm(jobDir, {recursive, force}) } catch (_) {} ... }:
\* server.js and part_000 remove the working directory in catch, part_001 does not.
CatchRemovesDir(v) == v # "part_001"

\* fs.rm(jobDir, { recursive: true, force: true }): the directory is gone when
\* the call resolves; when it rejects the directory is left as it was.
RmResult(dirs, j, ok) == IF ok THEN dirs \ {j} ELSE dirs

\* What that removal does to the artifacts: nothing, unless the artifact was
\* written under the working directory.
RmOutput(out, variant, j, ok) ==
    IF ok /\ FinalDir(variant) = "jobdir"
    THEN out \ {<<ArtifactKind(variant), j>>}
    ELSE out

\* The overlayApplied field of a success response: !!overlay_image_url in the
\* add-overlay and stitch handlers of part_000 and part_001, the literal true
\* in their image handler; the responses of server.js have no such field.
OverlayAppliedField(v, r) ==
    CASE v = "server" -> "absent"
      [] r.variant = "image" -> "true"
      [] OTHER -> IF r.overlay THEN "true" ELSE "false"

\* res.json({ success: true, jobId, ... })
SuccessResponse(r, j) ==
    [IdleJob EXCEPT !.phase = "done", !.variant = r.variant,
                    !.failed = r.failed, !.finalized = r.finalized,
                    !.composited = r.composited, !.degraded = r.degraded,
                    !.sent = r.sent + 1,
                    !.http = 200, !.success = "true", !.respJobId = j,
                    !.overlayApplied = OverlayAppliedField(ver, r)]

\* res.status(500).json({ success: false, error: error.message, jobId })
ErrorResponse(r, j) ==
    [IdleJob EXCEPT !.phase = "done", !.variant = r.variant,
                    !.failed = r.failed, !.fetchFailed = r.fetchFailed,
                    !.finalized = r.finalized, !.degraded = r.degraded,
                    !.sent = r.sent + 1,
                    !.http = 500, !.success = "false", !.respJobId = j]

\* The body of GET /api/status/:jobId: fs.access and fs.stat of
\* final_video_<jobId>.mp4 and getVideoDuration of it inside one try; any
\* rejection ends in the "processing" response of the inner catch.  A probe that
\* resolves without a duration ("nodur") still gives "completed".
StatusBody(o) ==
    IF o \in {"ok", "nodur"}
    THEN [jobId |-> 0, http |-> 200, status |-> "completed", completed |-> TRUE]
    ELSE [jobId |-> 0, http |-> 200, status |-> "processing", completed |-> FALSE]

\* What the three awaited calls of the status handler can do: fs.access
\* rejects when the file is absent; with the file present fs.stat may reject,
\* and the probe may reject, resolve with a duration or resolve with none.
StatusOutcomes(exists) ==
    IF exists THEN {"ok", "nodur", "stat_error", "probe_error"} ELSE {"absent"}

\* No helper is being run on its own.
NoCall == [pc |-> "none"]

\* No status response is being sent.
NoStatus == [jobId |-> 0, http |-> 0, status |-> "none", completed |-> FALSE]

----------------------------------------------------------------------------
Init ==
    /\ ver \in Versions
    /\ job = [j \in JobIds |-> IdleJob]
    /\ workdir = {}
    /\ output = {}
    /\ statusResp = NoStatus
    /\ call = NoCall

\* The job ids a client can put into a request: the ids that responses have
\* given out, and ids of its own making that no job has.
KnownIds ==
    (QueryIds \ JobIds) \cup {k \in JobIds : job[k].respJobId = k}

\* A request arrives: const jobId = uuidv4(), then the validation of req.body.
\* Ids are handed out in order, each to one request.
Submit(j) ==
    /\ job[j].phase = "idle"
    /\ \A k \in JobIds : k < j => job[k].phase # "idle"
    /\ \E req \in Requests(ver) :
          /\ req.variant = "stitch" =>
                req.sceneTarget \in KnownIds \cup {NoTarget}
          /\ job' = [job EXCEPT ![j] = IF ValidRequest(req)
                                       THEN AcceptedJob(ver, req)
                                       ELSE RejectedJob(req)]
    /\ statusResp' = NoStatus
    /\ UNCHANGED <<ver, call, workdir, output>>

\* await fs.mkdir(jobDir, { recursive: true })
Mkdir(j) ==
    /\ Cur(j) = "mkdir"
    /\ \E ok \in BOOLEAN :
          IF ok
          THEN /\ workdir' = workdir \cup {j}
               /\ job' = [job EXCEPT ![j] = Advanced(ver, @)]
          ELSE /\ workdir' = workdir
               /\ job' = [job EXCEPT ![j] = Thrown(@)]
    /\ statusResp' = NoStatus
    /\ UNCHANGED <<ver, call, output>>

\* How the promise of downloadFile settles.  "ok": the body is written and
\* the writer emits 'finish'.  "error": axios rejects (no connection, an error
\* status, no response within the timeout) or the writer emits 'error'.
\* "broken": the transfer breaks off inside the body; response.data.pipe(writer)
\* neither ends the writer nor passes the error on, and the promise listens to
\* the writer alone.
DownloadSettles(o) ==
    CASE o = "ok" -> "resolve"
      [] o = "error" -> "reject"
      [] OTHER -> "never"

\* The artifacts a download of job j writes in OUTPUT_DIR: none for a file
\* name inside the working directory, final_video_<x>.mp4 for a scene file
\* name that resolves to it.
WrittenOutside(j) ==
    IF Cur(j) = "fetch_scene" /\ job[j].sceneTarget # NoTarget
    THEN {<<"video", job[j].sceneTarget>>} ELSE {}

\* await downloadFile(url, path.join(jobDir, ...))
Download(j) ==
    /\ Cur(j) \in FetchStages
    /\ \E o \in {"ok", "error", "broken"} :
          /\ job' = [job EXCEPT ![j] =
                       CASE DownloadSettles(o) = "resolve" ->
                               Advanced(ver, [@ EXCEPT !.sceneTarget =
                                                IF Cur(j) = "fetch_scene"
                                                THEN NoTarget ELSE @])
                         [] DownloadSettles(o) = "reject" ->
                               Thrown([@ EXCEPT !.fetchFailed = TRUE])
                         [] OTHER -> Stalled([@ EXCEPT !.fetchFailed = TRUE])]
          /\ output' = IF DownloadSettles(o) = "resolve"
                       THEN output \cup WrittenOutside(j) ELSE output
    /\ statusResp' = NoStatus
    /\ UNCHANGED <<ver, call, workdir>>

\* A concat of no input (concat=n=0 with nothing to read) is a command the
\* engine rejects: stitchVideos resolves for a list of one path or more only.
ConcatCanSucceed(n) == n >= 1

\* await stitchVideos(videoPaths, stitchedVideoPath)
Stitch(j) ==
    /\ Cur(j) = "concat"
    /\ \E ok \in {b \in BOOLEAN : b => ConcatCanSucceed(job[j].nvideos)} :
          job' = [job EXCEPT ![j] = IF ok THEN Advanced(ver, @) ELSE Thrown(@)]
    /\ statusResp' = NoStatus
    /\ UNCHANGED <<ver, call, workdir, output>>

\* const videoDuration = await getVideoDuration(videoPath), and the check of it.
\* The probe rejects ("error"), resolves with a duration ("ok") or resolves
\* with none ("nodur"), which is a failed probe as well.
Probe(j) ==
    /\ Cur(j) = "probe"
    /\ \E o \in {"ok", "error", "nodur"} :
          job' = [job EXCEPT ![j] =
                    CASE o = "error" -> Thrown(@)
                      [] o = "nodur" /\ DurationChecked(ver) -> Thrown(@)
                      [] o = "nodur" ->
                            Advanced(ver, [@ EXCEPT !.dur = "missing", !.failed = TRUE])
                      [] OTHER -> Advanced(ver, [@ EXCEPT !.dur = "ok"])]
    /\ statusResp' = NoStatus
    /\ UNCHANGED <<ver, call, workdir, output>>

\* await trimAudio(audioPath, trimmedAudioPath, videoDuration)
Trim(j) ==
    /\ Cur(j) = "trim"
    /\ \E ok \in BOOLEAN :
          job' = [job EXCEPT ![j] = IF ok THEN Advanced(ver, @) ELSE Thrown(@)]
    /\ statusResp' = NoStatus
    /\ UNCHANGED <<ver, call, workdir, output>>

\* The overlay filter of the compose reads [2:v].  part_000 declares the
\* overlay image as its third input; part_001 declares the video and the music
\* only, so with an overlay its graph names an input that does not exist and
\* the engine ends with 'error' before it opens its output.
ComposeCanSucceed(v, overlay) == ~(v = "part_001" /\ overlay)

\* addAudioToVideo / addAudioAndOverlayToVideo(..., finalVideoPath, ...): the
\* engine is started with OUTPUT_DIR/final_video_<jobId>.mp4 as its output.
ComposeStart(j) ==
    /\ Cur(j) = "compose"
    /\ ~job[j].busy
    /\ job' = [job EXCEPT ![j].busy = TRUE]
    /\ statusResp' = NoStatus
    /\ UNCHANGED <<ver, call, workdir, output>>

\* The running engine opens its output file and writes to it.
ComposeWrite(j) ==
    /\ Cur(j) = "compose"
    /\ job[j].busy
    /\ ComposeCanSucceed(ver, job[j].overlay)
    /\ FinalPath(j) \notin output
    /\ output' = output \cup {FinalPath(j)}
    /\ statusResp' = NoStatus
    /\ UNCHANGED <<ver, call, job, workdir>>

\* The engine ends: 'end' resolves with the artifact written, 'error' rejects
\* and leaves whatever the engine had written.
ComposeEnd(j) ==
    /\ Cur(j) = "compose"
    /\ job[j].busy
    /\ \E ok \in {b \in BOOLEAN : b => ComposeCanSucceed(ver, job[j].overlay)} :
          IF ok
          THEN /\ output' = output \cup {FinalPath(j)}
               /\ job' = [job EXCEPT ![j] =
                            Advanced(ver, [@ EXCEPT !.busy = FALSE,
                                                    !.composited = job[j].overlay])]
          ELSE /\ output' = output
               /\ job' = [job EXCEPT ![j] = Thrown(@)]
    /\ statusResp' = NoStatus
    /\ UNCHANGED <<ver, call, workdir>>

\* Faulty variant of OverlayImageSettles: .on('error', reject), as the video
\* helpers have it.
OverlayImageSettlesStrict(o) == IF o = "ok" THEN "resolve" ELSE "reject"

\* How the promise of addOverlayToImage settles.  "ok": the engine ends well.
\* "fallback": the engine fails and the copy of the base image to the output
\* path closes.  "reject": the engine fails and the copy fails as well.
OverlayImageSettles(o) == IF o = "reject" THEN "reject" ELSE "resolve"

\* await addOverlayToImage(baseImagePath, overlayImagePath, finalImagePath, ...)
ImageOverlay(j) ==
    /\ Cur(j) = "overlay_image"
    /\ \E o \in {"ok", "fallback", "reject"} :
          LET r == [job[j] EXCEPT !.composited = (o = "ok"),
                                  !.degraded = (o = "fallback")]
          IN  IF OverlayImageSettles(o) = "reject"
              THEN /\ \E wrote \in BOOLEAN :
                         output' = IF wrote THEN output \cup {FinalPath(j)}
                                   ELSE output
                   /\ job' = [job EXCEPT ![j] = Thrown(r)]
              ELSE /\ output' = output \cup {FinalPath(j)}
                   /\ job' = [job EXCEPT ![j] = Advanced(ver, r)]
    /\ statusResp' = NoStatus
    /\ UNCHANGED <<ver, call, workdir>>

\* const finalDuration = await getVideoDuration(finalVideoPath): no check of
\* the value follows.
ProbeFinal(j) ==
    /\ Cur(j) = "probe_final"
    /\ \E o \in {"ok", "error", "nodur"} :
          job' = [job EXCEPT ![j] = IF o = "error" THEN Thrown(@)
                                    ELSE Advanced(ver, @)]
    /\ statusResp' = NoStatus
    /\ UNCHANGED <<ver, call, workdir, output>>

\* const stats = await fs.stat(finalPath)
Stat(j) ==
    /\ Cur(j) = "stat"
    /\ \E ok \in BOOLEAN :
          /\ ok => FinalPath(j) \in output
          /\ job' = [job EXCEPT ![j] =
                       IF ok THEN Advanced(ver, [@ EXCEPT !.finalized = TRUE])
                       ELSE Thrown(@)]
    /\ statusResp' = NoStatus
    /\ UNCHANGED <<ver, call, workdir, output>>

\* await fs.rm(jobDir, { recursive: true, force: true }) in the try block.
Cleanup(j) ==
    /\ Cur(j) = "rm"
    /\ \E ok \in BOOLEAN :
          /\ workdir' = RmResult(workdir, j, ok)
          /\ output' = RmOutput(output, job[j].variant, j, ok)
          /\ job' = [job EXCEPT ![j] = IF ok THEN Advanced(ver, @) ELSE Thrown(@)]
    /\ statusResp' = NoStatus
    /\ UNCHANGED <<ver, call>>

\* res.json({ success: true, ... }) at the end of the try block.
Respond(j) ==
    /\ job[j].phase = "respond"
    /\ job' = [job EXCEPT ![j] = SuccessResponse(@, j)]
    /\ statusResp' = NoStatus
    /\ UNCHANGED <<ver, call, workdir, output>>

\* catch (error): the removal of the working directory, its own failure
\* swallowed; part_001 responds at once.
Catch(j) ==
    /\ job[j].phase = "catch"
    /\ IF CatchRemovesDir(ver)
       THEN /\ \E ok \in BOOLEAN :
                  /\ workdir' = RmResult(workdir, j, ok)
                  /\ output' = RmOutput(output, job[j].variant, j, ok)
            /\ job' = [job EXCEPT ![j].phase = "respond_err"]
       ELSE /\ workdir' = workdir
            /\ output' = output
            /\ job' = [job EXCEPT ![j] = ErrorResponse(@, j)]
    /\ statusResp' = NoStatus
    /\ UNCHANGED <<ver, call>>

\* res.status(500).json({ success: false, error, jobId }) after the removal.
RespondError(j) ==
    /\ job[j].phase = "respond_err"
    /\ job' = [job EXCEPT ![j] = ErrorResponse(@, j)]
    /\ statusResp' = NoStatus
    /\ UNCHANGED <<ver, call, workdir, output>>

\* GET /api/status/:jobId.  statusResp is the response this step sends; every
\* other step clears it, so it is always read against the state it was
\* computed from.
Status(id) ==
    /\ ver \in StatusRoutes
    /\ \E o \in StatusOutcomes(<<"video", id>> \in output) :
          statusResp' = [StatusBody(o) EXCEPT !.jobId = id]
    /\ UNCHANGED <<ver, call, job, workdir, output>>

Next ==
    \/ \E j \in JobIds : Submit(j)
    \/ \E j \in JobIds : Mkdir(j)
    \/ \E j \in JobIds : Download(j)
    \/ \E j \in JobIds : Stitch(j)
    \/ \E j \in JobIds : Probe(j)
    \/ \E j \in JobIds : Trim(j)
    \/ \E j \in JobIds : ComposeStart(j)
    \/ \E j \in JobIds : ComposeWrite(j)
    \/ \E j \in JobIds : ComposeEnd(j)
    \/ \E j \in JobIds : ImageOverlay(j)
    \/ \E j \in JobIds : ProbeFinal(j)
    \/ \E j \in JobIds : Stat(j)
    \/ \E j \in JobIds : Cleanup(j)
    \/ \E j \in JobIds : Respond(j)
    \/ \E j \in JobIds : Catch(j)
    \/ \E j \in JobIds : RespondError(j)
    \/ \E id \in QueryIds : Status(id)

Spec == Init /\ [][Next]_vars

\* A step of the handler of job j.  The event loop runs every continuation
\* whose awaited promise has settled, so a handler that can take a step does.
HandlerStep(j) ==
    \/ Mkdir(j) \/ Download(j) \/ Stitch(j) \/ Probe(j) \/ Trim(j)
    \/ ComposeStart(j) \/ ComposeWrite(j) \/ ComposeEnd(j) \/ ImageOverlay(j)
    \/ ProbeFinal(j) \/ Stat(j) \/ Cleanup(j)
    \/ Respond(j) \/ Catch(j) \/ RespondError(j)

\* The server with every transfer, engine run and filesystem call ending.
LiveSpec == Init /\ [][Next]_vars /\ \A j \in JobIds : WF_vars(HandlerStep(j))

----------------------------------------------------------------------------
\* The scene list of the stitch handler, run on its own: the sort of
\* req.body.videos, the download loop that names each scene's file after its
\* scene_number, and the inputs stitchVideos gives the engine.

\* Largest videos array the scene list is run on.
MaxListLen == 3

\* The decimal digits, in order of their values.
DigitChars == <<"0", "1", "2", "3", "4", "5", "6", "7", "8", "9">>

IsDigit(c) == \E i \in DOMAIN DigitChars : DigitChars[i] = c

DigitValue(c) == (CHOOSE i \in DOMAIN DigitChars : DigitChars[i] = c) - 1

\* The scene_number values of the requests, each as the characters that
\* String(video.scene_number) gives: the numbers 1, 2, 3 and 10, the string
\* "02", the string "x" and the string "/../../output/final_video_x" (JSON
\* carries any string; the handler does not look at the value's type).
SceneNumbers ==
    {<<"1">>, <<"2">>, <<"3">>, <<"1", "0">>, <<"0", "2">>, <<"x">>,
     <<"/", "..", "/", "..", "/", "output", "/", "final_video_x">>}

\* req.body.videos: entry i holds scene_number and final_video_url; the url is
\* written as the entry's position in the request, so that every entry has a
\* video of its own.
VideoArrays ==
    UNION {[1 .. n -> SceneNumbers] : n \in 0 .. MaxListLen}

VideoEntry(scene, url) == [scene_number |-> scene, final_video_url |-> url]

VideosOf(scenes) == [i \in DOMAIN scenes |-> VideoEntry(scenes[i], i)]

\* The longest prefix of s made of decimal digits.
RECURSIVE DigitPrefix(_)
DigitPrefix(s) ==
    IF s = <<>> \/ ~IsDigit(Head(s)) THEN <<>>
    ELSE <<Head(s)>> \o DigitPrefix(Tail(s))

RECURSIVE DecimalValue(_)
DecimalValue(ds) ==
    IF ds = <<>> THEN 0
    ELSE 10 * DecimalValue(SubSeq(ds, 1, Len(ds) - 1)) + DigitValue(ds[Len(ds)])

\* parseInt(x, 10): an optional sign, then the longest prefix of digits; NaN
\* when there is no digit.
ParseInt(s) ==
    LET signed == s # <<>> /\ Head(s) \in {"+", "-"}
        ds     == DigitPrefix(IF signed THEN Tail(s) ELSE s)
    IN  IF ds = <<>> THEN [nan |-> TRUE, n |-> 0]
        ELSE [nan |-> FALSE,
              n   |-> IF signed /\ Head(s) = "-" THEN 0 - DecimalValue(ds)
                      ELSE DecimalValue(ds)]

\* Faulty variant of SceneCompare: return sceneB - sceneA.
SceneCompareDescending(a, b) ==
    LET sceneA == ParseInt(a.scene_number)
        sceneB == ParseInt(b.scene_number)
    IN  IF sceneA.nan \/ sceneB.nan THEN 0 ELSE sceneB.n - sceneA.n

\* (a, b) => parseInt(a.scene_number, 10) - parseInt(b.scene_number, 10); a
\* NaN result is taken as 0 by Array.prototype.sort.
SceneCompare(a, b) ==
    LET sceneA == ParseInt(a.scene_number)
        sceneB == ParseInt(b.scene_number)
    IN  IF sceneA.nan \/ sceneB.nan THEN 0 ELSE sceneA.n - sceneB.n

\* One insertion of the stable sort: x goes behind every entry of the sorted
\* prefix that the comparator does not put after it.
RECURSIVE InsertSorted(_, _)
InsertSorted(sorted, x) ==
    IF sorted = <<>> THEN <<x>>
    ELSE IF SceneCompare(x, sorted[Len(sorted)]) < 0
         THEN InsertSorted(SubSeq(sorted, 1, Len(sorted) - 1), x)
              \o <<sorted[Len(sorted)]>>
         ELSE sorted \o <<x>>

\* videos.sort(compare): Array.prototype.sort is a stable sort.
RECURSIVE SortVideos(_)
SortVideos(videos) ==
    IF videos = <<>> THEN <<>>
    ELSE InsertSorted(SortVideos(SubSeq(videos, 1, Len(videos) - 1)),
                      videos[Len(videos)])

\* str.padStart(3, '0')
PadStart3(s) ==
    IF Len(s) >= 3 THEN s ELSE [k \in 1 .. (3 - Len(s)) |-> "0"] \o s

\* `video_${String(video.scene_number).padStart(3, '0')}.mp4`
SceneFile(video) == <<"video_">> \o PadStart3(video.scene_number) \o <<".mp4">>

\* The text of s before its first '/' (all of s when it has none).
RECURSIVE BeforeSlash(_)
BeforeSlash(s) ==
    IF s = <<>> \/ Head(s) = "/" THEN <<>>
    ELSE <<Head(s)>> \o BeforeSlash(Tail(s))

\* The segments of a path text: the texts between its '/'.
RECURSIVE Segments(_)
Segments(s) ==
    LET first == BeforeSlash(s)
    IN  IF Len(first) = Len(s) THEN <<first>>
        ELSE <<first>> \o Segments(SubSeq(s, Len(first) + 2, Len(s)))

\* path.normalize on the segments of an absolute path: an empty segment and
\* '.' are dropped, '..' takes the segment before it away (none at the root).
RECURSIVE Normalize(_)
Normalize(segs) ==
    IF segs = <<>> THEN <<>>
    ELSE LET before == Normalize(SubSeq(segs, 1, Len(segs) - 1))
             last   == segs[Len(segs)]
         IN  IF last = <<>> \/ last = <<".">> THEN before
             ELSE IF last = <<"..">>
                  THEN (IF before = <<>> THEN <<>>
                        ELSE SubSeq(before, 1, Len(before) - 1))
                  ELSE Append(before, last)

\* path.join(dir, name): the two joined by '/', then normalized.
PathJoin(dir, name) == Normalize(dir \o Segments(name))

\* const TEMP_DIR = '/tmp'; OUTPUT_DIR = path.join(TEMP_DIR, 'output')
TEMP_DIR == <<<<"tmp">>>>

OUTPUT_DIR == PathJoin(TEMP_DIR, <<"output">>)

\* const jobDir = path.join(TEMP_DIR, jobId), for the job of this handler.
JobDir == PathJoin(TEMP_DIR, <<"jobId">>)

\* const videoPath = path.join(jobDir, `video_...mp4`)
ScenePath(video) == PathJoin(JobDir, SceneFile(video))

\* A path lies inside a directory.
Inside(dir, p) == Len(p) > Len(dir) /\ SubSeq(p, 1, Len(dir)) = dir

\* The files of the working directory as pairs <<name, content>>; a download
\* to a name replaces what the name held.
WriteFile(files, name, content) ==
    {f \in files : f[1] # name} \cup {<<name, content>>}

ReadFile(files, name) == (CHOOSE f \in files : f[1] = name)[2]

\* The stitch handler with the request body videos, before the sort.
ListCall(scenes) ==
    [pc |-> "sort", videos |-> VideosOf(scenes), sortedVideos |-> <<>>,
     i |-> 0, inflight |-> {},
     videoPaths |-> <<>>, files |-> {}, inputs |-> <<>>]

ListInit ==
    /\ ver \in Versions
    /\ job = [j \in JobIds |-> IdleJob]
    /\ workdir = {}
    /\ output = {}
    /\ statusResp = NoStatus
    /\ call \in {ListCall(scenes) : scenes \in VideoArrays}

\* const sortedVideos = videos.sort(...)
SortScenes ==
    /\ call.pc = "sort"
    /\ call' = [call EXCEPT !.sortedVideos = SortVideos(call.videos),
                            !.pc = "download"]
    /\ UNCHANGED <<ver, job, workdir, output, statusResp>>

\* Faulty variant of Awaited: downloadFile called without await.
AwaitedNever(inflight) == TRUE

\* await: the handler goes on once the promise it waits for has settled.
\* inflight holds the rounds of the loop whose download has been started and
\* has not settled.
Awaited(inflight) == inflight = {}

\* A round of the loop begins: for (let i = 0; i < sortedVideos.length; i++)
\* with downloadFile(video.final_video_url, videoPath) called.  call.i counts
\* the rounds begun.
FetchScene ==
    /\ call.pc = "download"
    /\ call.i < Len(call.sortedVideos)
    /\ Awaited(call.inflight)
    /\ call' = [call EXCEPT !.i = @ + 1, !.inflight = @ \cup {call.i + 1}]
    /\ UNCHANGED <<ver, job, workdir, output, statusResp>>

\* The download of a round settles: resolved, the file is written and
\* videoPaths.push(videoPath) follows; rejected, the handler ends.
DownloadScene ==
    /\ call.pc = "download"
    /\ \E k \in call.inflight :
          LET video == call.sortedVideos[k]
          IN  \E ok \in BOOLEAN :
                 call' = IF ok
                         THEN [call EXCEPT
                                 !.inflight = @ \ {k},
                                 !.files = WriteFile(@, ScenePath(video),
                                                     video.final_video_url),
                                 !.videoPaths = Append(@, ScenePath(video))]
                         ELSE [call EXCEPT !.inflight = @ \ {k},
                                           !.pc = "failed"]
    /\ UNCHANGED <<ver, job, workdir, output, statusResp>>

\* stitchVideos(videoPaths, ...): videoPaths.forEach(p => command.input(p)),
\* the engine reads what each path holds.
StitchInputs ==
    /\ call.pc = "download"
    /\ call.i = Len(call.sortedVideos)
    /\ Awaited(call.inflight)
    /\ call' = [call EXCEPT
                  !.inputs = [k \in DOMAIN call.videoPaths |->
                                ReadFile(call.files, call.videoPaths[k])],
                  !.pc = "stitched"]
    /\ UNCHANGED <<ver, job, workdir, output, statusResp>>

ListNext == SortScenes \/ FetchScene \/ DownloadScene \/ StitchInputs

ListSpec == ListInit /\ [][ListNext]_vars

\* The value of a scene_number that is a decimal integer.
SceneValue(video) == ParseInt(video.scene_number).n

\* The scene_numbers of the request are numeric and no two have the same value.
DistinctNumeric(videos) ==
    /\ \A i \in DOMAIN videos : ~ParseInt(videos[i].scene_number).nan
    /\ \A i, k \in DOMAIN videos : i # k => SceneValue(videos[i]) # SceneValue(videos[k])

\* C11: for every order of a request's videos with distinct numeric
\* scene_numbers, the inputs given to the concatenation are the videos of all
\* the scenes, each once, in ascending order of scene_number.
C11_ConcatInputsAscending ==
    (call.pc = "stitched" /\ DistinctNumeric(call.videos)) =>
        /\ Len(call.inputs) = Len(call.videos)
        /\ \A i \in DOMAIN call.videos : \E k \in DOMAIN call.inputs : call.inputs[k] = i
        /\ \A k, m \in DOMAIN call.inputs :
              k < m => SceneValue(call.videos[call.inputs[k]])
                          < SceneValue(call.videos[call.inputs[m]])

\* Scenes 10, 3, 2 sent in descending order have been stitched.
C11_Witness ==
    /\ call.pc = "stitched"
    /\ DistinctNumeric(call.videos)
    /\ Len(call.videos) = MaxListLen
    /\ call.videos[1].scene_number = <<"1", "0">>
    /\ call.videos[3].scene_number \in {<<"2">>, <<"0", "2">>}
    /\ call.inputs = <<3, 2, 1>>

\* C28: at most one scene fetch of a stitch job is in progress at any time,
\* and the fetch of scene i+1 is started only once the fetches of the scenes
\* before it have finished, and the concatenation only once all have.
C28_OneFetchAtATime ==
    /\ Cardinality(call.inflight) <= 1
    /\ \A k \in call.inflight : Len(call.videoPaths) = k - 1
    /\ call.pc = "stitched" =>
          call.inflight = {} /\ Len(call.videoPaths) = Len(call.sortedVideos)

\* The fetch of the second scene is in progress, the first scene's file is
\* written.
C28_Witness ==
    /\ call.pc = "download" /\ call.inflight = {2}
    /\ Len(call.videoPaths) = 1 /\ Cardinality(call.files) = 1

\* C29: in a stitch job no two entries of videos share a local path, and the
\* concatenation has one input per entry, each holding that entry's own
\* video, also when scene_numbers are equal.
C29_OwnLocalFile ==
    call.pc = "stitched" =>
        /\ \A k, m \in DOMAIN call.videoPaths :
              k # m => call.videoPaths[k] # call.videoPaths[m]
        /\ Len(call.inputs) = Len(call.videos)
        /\ \A k \in DOMAIN call.inputs :
              call.inputs[k] = call.sortedVideos[k].final_video_url

\* C32: every file a stitch job writes while it fetches its scenes lies inside
\* the job's own working directory, whatever the scene_number values are.
C32_SceneFilesInsideJobDir ==
    \A f \in call.files : Inside(JobDir, f[1])

----------------------------------------------------------------------------
\* The audio of a job, run on its own: trimAudio with the probed duration of
\* the video, then the compose helper.  Durations are whole seconds.

\* Longest video and longest audio asset.
MaxSeconds == 6

Durations == 1 .. MaxSeconds

Min2(a, b) == IF a <= b THEN a ELSE b

\* Faulty variant of TrimArgs: trimAudio without .duration(duration).
TrimArgsWholeInput(duration) == [ss |-> 0, limited |-> FALSE, t |-> duration]

\* trimAudio: ffmpeg(inputPath).setStartTime(0).duration(duration)
TrimArgs(duration) == [ss |-> 0, limited |-> TRUE, t |-> duration]

\* What the engine writes for an input of len seconds: the part from args.ss
\* on, args.t seconds of it at most; it pads nothing.
EngineCut(len, args) ==
    IF args.ss >= len THEN 0
    ELSE IF args.limited THEN Min2(len - args.ss, args.t)
         ELSE len - args.ss

\* addAudioToVideo / addAudioAndOverlayToVideo: [1:a]volume=1.0[music] is the
\* only audio mapped; every variant of the output options ends in -shortest.
ComposeArgs(overlay) == [audio |-> "music", overlay |-> overlay, shortest |-> TRUE]

\* The engine's output for a video of v seconds and a music input of a
\* seconds: with -shortest it ends with the shorter stream.
EngineMux(v, a, args) ==
    [video |-> IF args.shortest THEN Min2(v, a) ELSE v,
     audio |-> IF args.shortest THEN Min2(v, a) ELSE a]

\* A handler whose probe gave videoDuration, with an audio asset of
\* audioLength seconds downloaded.
AudioCall(videoDuration, audioLength, overlay) ==
    [pc |-> "trim", videoDuration |-> videoDuration, audioLength |-> audioLength,
     overlay |-> overlay, trimArgs |-> [ss |-> 0, limited |-> FALSE, t |-> 0],
     trimmed |-> 0, final |-> [video |-> 0, audio |-> 0]]

AudioInit ==
    /\ ver \in Versions
    /\ job = [j \in JobIds |-> IdleJob]
    /\ workdir = {}
    /\ output = {}
    /\ statusResp = NoStatus
    /\ call \in {AudioCall(v, a, o) :
                    v \in Durations, a \in Durations,
                    o \in {b \in BOOLEAN : /\ ver = "server" => ~b
                                           /\ ComposeCanSucceed(ver, b)}}

\* await trimAudio(audioPath, trimmedAudioPath, videoDuration), ending well.
TrimAudio ==
    /\ call.pc = "trim"
    /\ call' = [call EXCEPT
                  !.trimArgs = TrimArgs(call.videoDuration),
                  !.trimmed = EngineCut(call.audioLength, TrimArgs(call.videoDuration)),
                  !.pc = "compose"]
    /\ UNCHANGED <<ver, job, workdir, output, statusResp>>

\* await addAudioToVideo(videoPath, trimmedAudioPath, finalVideoPath), or
\* addAudioAndOverlayToVideo with the same arguments, ending well.
ComposeAudio ==
    /\ call.pc = "compose"
    /\ call' = [call EXCEPT
                  !.final = EngineMux(call.videoDuration, call.trimmed,
                                      ComposeArgs(call.overlay)),
                  !.pc = "composed"]
    /\ UNCHANGED <<ver, job, workdir, output, statusResp>>

AudioNext == TrimAudio \/ ComposeAudio

AudioSpec == AudioInit /\ [][AudioNext]_vars

\* C12: for a video probed at V seconds and an audio asset of A seconds, the
\* trim starts at offset 0 and gives min(A, V) seconds (nothing is padded),
\* and the audio of the artifact is those same min(V, A) seconds: -shortest
\* neither lengthens nor shortens it.
C12_AudioIsMinOfBoth ==
    /\ call.pc \in {"compose", "composed"} =>
          /\ call.trimArgs.ss = 0
          /\ call.trimmed = Min2(call.audioLength, call.videoDuration)
    /\ call.pc = "composed" =>
          /\ call.final.audio = Min2(call.videoDuration, call.audioLength)
          /\ call.final.audio = call.trimmed

\* An audio asset longer than the video has been trimmed and composed.
C12_Witness ==
    /\ call.pc = "composed"
    /\ call.audioLength > call.videoDuration
    /\ call.final.audio = call.videoDuration
    /\ call.overlay

----------------------------------------------------------------------------
\* The delivery routes, each request run on its own against the output
\* directory: GET /download/:jobId, /download-image/:jobId, /serve-image/:jobId
\* and /stream/:jobId.  A file is its size; its bytes are the offsets
\* 0 .. size-1, and a body is the offset it starts at and its number of bytes.

\* Largest artifact, in bytes.
MaxSize == 10

\* The sources whose text holds the range handling of GET /stream/:jobId (the
\* text of part_001 ends inside that route).
StreamRoutes == {"server", "part_000"}

\* The routes of each source.
DeliveryRoutes(v) ==
    CASE v = "server" -> {"download", "stream", "status", "health"}
      [] v = "part_000" -> {"download", "download-image", "serve-image",
                            "stream", "status", "health"}
      [] OTHER -> {"download", "download-image", "serve-image"}

\* The decimal text of a natural number.
RECURSIVE DigitsOf(_)
DigitsOf(n) ==
    IF n < 10 THEN <<DigitChars[n + 1]>>
    ELSE DigitsOf(n \div 10) \o <<DigitChars[(n % 10) + 1]>>

\* Offsets a client names in a range header: some inside the file, some past
\* its end.
Offsets == 0 .. (MaxSize + 2)

\* One side of a range, as sent: no text, or the digits of an offset.
RangeSides == {<<>>} \cup {DigitsOf(n) : n \in Offsets}

\* The values of the Range header: <unit>first-second, and a unit with one
\* number and no dash.
RangeHeaders ==
    {<<unit>> \o first \o <<"-">> \o second :
        unit \in {"bytes=", "items="}, first \in RangeSides, second \in RangeSides}
    \cup {<<"bytes=">> \o first : first \in RangeSides}

\* str.replace(/bytes=/, ''): the first "bytes=" of the text is dropped.
RECURSIVE DropBytesUnit(_)
DropBytesUnit(s) ==
    IF s = <<>> THEN <<>>
    ELSE IF Head(s) = "bytes=" THEN Tail(s)
         ELSE <<Head(s)>> \o DropBytesUnit(Tail(s))

\* The text of s before its first '-' (all of s when it has none).
RECURSIVE BeforeDash(_)
BeforeDash(s) ==
    IF s = <<>> \/ Head(s) = "-" THEN <<>>
    ELSE <<Head(s)>> \o BeforeDash(Tail(s))

\* str.split('-')
RECURSIVE SplitDash(_)
SplitDash(s) ==
    LET first == BeforeDash(s)
    IN  IF Len(first) = Len(s) THEN <<first>>
        ELSE <<first>> \o SplitDash(SubSeq(s, Len(first) + 2, Len(s)))

\* A number that is no NaN.
Num(n) == [nan |-> FALSE, n |-> n]

\* Faulty variant of DefaultEnd: stats.size in place of stats.size - 1.
DefaultEndAtSize(size) == Num(size)

\* The end of a range whose header names none: stats.size - 1.
DefaultEnd(size) == Num(size - 1)

\* Faulty variant of ChunkSize: end - start.
ChunkSizeExclusive(start, end) ==
    IF start.nan \/ end.nan THEN [nan |-> TRUE, n |-> 0]
    ELSE Num(end.n - start.n)

\* const chunkSize = (end - start) + 1
ChunkSize(start, end) ==
    IF start.nan \/ end.nan THEN [nan |-> TRUE, n |-> 0]
    ELSE Num((end.n - start.n) + 1)

\* parts, start, end and chunkSize of the stream route.
StreamRange(range, size) ==
    LET parts == SplitDash(DropBytesUnit(range))
        start == ParseInt(parts[1])
        end   == IF Len(parts) >= 2 /\ parts[2] # <<>>
                 THEN ParseInt(parts[2]) ELSE DefaultEnd(size)
    IN  [start |-> start, end |-> end, chunkSize |-> ChunkSize(start, end)]

\* fs.createReadStream(filePath, { start, end }) checks its options before
\* it opens the file: start and end must be integers >= 0 and start <= end,
\* otherwise it throws.
ReadStreamThrows(start, end) ==
    \/ start.nan \/ end.nan
    \/ start.n < 0 \/ end.n < 0
    \/ start.n > end.n

\* The bytes such a stream reads from a file of size bytes: from start up to
\* end or to the last byte of the file, whichever comes first.
ReadBytes(size, start, end) ==
    IF start >= size THEN [from |-> start, count |-> 0]
    ELSE [from |-> start, count |-> (Min2(end, size - 1) - start) + 1]

\* No response header or body of this kind.
NoRange == [start |-> 0 - 1, end |-> 0 - 1, size |-> 0 - 1]

NoBody == [from |-> 0, count |-> 0]

\* res.status(404).json({ error, details })
NotFound ==
    [status |-> 404, kind |-> "error", contentLength |-> 0 - 1,
     contentRange |-> NoRange, body |-> NoBody]

\* The whole file piped to the response with Content-Length stats.size.
WholeFile(size) ==
    [status |-> 200, kind |-> "bytes", contentLength |-> size,
     contentRange |-> NoRange, body |-> ReadBytes(size, 0, size - 1)]

\* res.json({ success: true, imageUrl, jobId })
ImagePointer ==
    [status |-> 200, kind |-> "pointer", contentLength |-> 0 - 1,
     contentRange |-> NoRange, body |-> NoBody]

\* The response of GET /stream/:jobId for a file of size bytes.
StreamResponse(hasRange, range, size) ==
    IF ~hasRange \/ range = <<>> THEN WholeFile(size)
    ELSE LET r == StreamRange(range, size)
         IN  IF ReadStreamThrows(r.start, r.end) THEN NotFound
             ELSE [status |-> 206, kind |-> "bytes",
                   contentLength |-> r.chunkSize.n,
                   contentRange |-> [start |-> r.start.n, end |-> r.end.n,
                                     size |-> size],
                   body |-> ReadBytes(size, r.start.n, r.end.n)]

\* What the routes find for the job id of the request: final_video_<jobId>.mp4
\* and final_image_<jobId>.png, each absent or present with its size; every
\* request names a job id that has at most one of the two.
NoFile == [exists |-> FALSE, size |-> 0]

Files == {NoFile} \cup [exists : {TRUE}, size : 1 .. MaxSize]

\* A request to a delivery route, before its handler runs.  fs: whether
\* fs.access and fs.stat of an existing file resolve.
DeliveryCalls(v) ==
    [pc : {"request"},
     route : DeliveryRoutes(v) \cap {"download", "download-image", "serve-image"},
     video : Files, image : {NoFile}, fs : {"ok", "stat_error"},
     hasRange : {FALSE}, range : {<<>>}, response : {NotFound}]
    \cup
    [pc : {"request"},
     route : DeliveryRoutes(v) \cap {"download", "download-image", "serve-image"},
     video : {NoFile}, image : Files, fs : {"ok", "stat_error"},
     hasRange : {FALSE}, range : {<<>>}, response : {NotFound}]
    \cup
    [pc : {"request"}, route : DeliveryRoutes(v) \cap {"status"},
     video : Files, image : {NoFile},
     fs : {"ok", "nodur", "stat_error", "probe_error"},
     hasRange : {FALSE}, range : {<<>>}, response : {NotFound}]
    \cup
    [pc : {"request"}, route : DeliveryRoutes(v) \cap {"health"},
     video : Files, image : Files, fs : {"ok"},
     hasRange : {FALSE}, range : {<<>>}, response : {NotFound}]
    \cup
    [pc : {"request"}, route : DeliveryRoutes(v) \cap {"stream"},
     video : Files, image : {NoFile}, fs : {"ok", "stat_error"},
     hasRange : {FALSE}, range : {<<>>}, response : {NotFound}]
    \cup
    [pc : {"request"}, route : DeliveryRoutes(v) \cap {"stream"},
     video : Files, image : {NoFile}, fs : {"ok"},
     hasRange : {TRUE}, range : RangeHeaders, response : {NotFound}]

DeliveryInit ==
    /\ ver \in Versions
    /\ job = [j \in JobIds |-> IdleJob]
    /\ workdir = {}
    /\ output = {}
    /\ statusResp = NoStatus
    /\ call \in DeliveryCalls(ver)

\* await fs.access(filePath); const stats = await fs.stat(filePath): both
\* inside the try block whose catch sends the 404.
FileFound(file, fs) == file.exists /\ fs = "ok"

\* Faulty variant of ReadStreamFlags: the file opened for writing.
ReadStreamFlagsWrite == "w"

\* require('fs').createReadStream(filePath): the file is opened with the
\* flags 'r'.
ReadStreamFlags == "r"

\* What opening does to a file: 'r' leaves it as it is, 'w' creates it or
\* cuts it to no bytes.
OpenFile(file, flags) ==
    IF flags = "w" THEN [exists |-> TRUE, size |-> 0] ELSE file

\* A JSON body that is neither the file nor the 404.
JsonBody(kind) ==
    [status |-> 200, kind |-> kind, contentLength |-> 0 - 1,
     contentRange |-> NoRange, body |-> NoBody]

\* GET /download/:jobId
ServeDownload ==
    /\ call.pc = "request" /\ call.route = "download"
    /\ call' = [call EXCEPT
                  !.pc = "responded",
                  !.video = IF FileFound(call.video, call.fs)
                            THEN OpenFile(@, ReadStreamFlags) ELSE @,
                  !.response = IF FileFound(call.video, call.fs)
                               THEN WholeFile(call.video.size) ELSE NotFound]
    /\ UNCHANGED <<ver, job, workdir, output, statusResp>>

\* GET /download-image/:jobId: fs.access only, then a JSON body that names
\* the /serve-image url.
ServeDownloadImage ==
    /\ call.pc = "request" /\ call.route = "download-image"
    /\ call' = [call EXCEPT
                  !.pc = "responded",
                  !.response = IF call.image.exists THEN ImagePointer
                               ELSE NotFound]
    /\ UNCHANGED <<ver, job, workdir, output, statusResp>>

\* GET /serve-image/:jobId
ServeImage ==
    /\ call.pc = "request" /\ call.route = "serve-image"
    /\ call' = [call EXCEPT
                  !.pc = "responded",
                  !.image = IF FileFound(call.image, call.fs)
                            THEN OpenFile(@, ReadStreamFlags) ELSE @,
                  !.response = IF FileFound(call.image, call.fs)
                               THEN WholeFile(call.image.size) ELSE NotFound]
    /\ UNCHANGED <<ver, job, workdir, output, statusResp>>

\* GET /stream/:jobId
ServeStream ==
    /\ call.pc = "request" /\ call.route = "stream"
    /\ ver \in StreamRoutes
    /\ LET response == IF FileFound(call.video, call.fs)
                       THEN StreamResponse(call.hasRange, call.range,
                                           call.video.size)
                       ELSE NotFound
       IN  call' = [call EXCEPT
                      !.pc = "responded",
                      !.video = IF response.kind = "bytes"
                                THEN OpenFile(@, ReadStreamFlags) ELSE @,
                      !.response = response]
    /\ UNCHANGED <<ver, job, workdir, output, statusResp>>

\* GET /api/status/:jobId: fs.access, fs.stat and the probe of the artifact,
\* then one of the two JSON bodies.
ServeStatus ==
    /\ call.pc = "request" /\ call.route = "status"
    /\ ver \in StatusRoutes
    /\ LET o == IF call.video.exists THEN call.fs ELSE "absent"
       IN  call' = [call EXCEPT !.pc = "responded",
                                !.response = JsonBody(StatusBody(o).status)]
    /\ UNCHANGED <<ver, job, workdir, output, statusResp>>

\* GET /health: res.json({ status: 'OK', service, timestamp })
ServeHealth ==
    /\ call.pc = "request" /\ call.route = "health"
    /\ call' = [call EXCEPT !.pc = "responded", !.response = JsonBody("OK")]
    /\ UNCHANGED <<ver, job, workdir, output, statusResp>>

DeliveryNext ==
    \/ ServeDownload \/ ServeDownloadImage \/ ServeImage \/ ServeStream
    \/ ServeStatus \/ ServeHealth

DeliverySpec == DeliveryInit /\ [][DeliveryNext]_vars

\* The header bytes=a-b, and the header bytes=a-.
ClosedRange(a, b) == <<"bytes=">> \o DigitsOf(a) \o <<"-">> \o DigitsOf(b)

OpenRange(a) == <<"bytes=">> \o DigitsOf(a) \o <<"-">>

\* The stream route has answered a request with a range header for an
\* existing file.
Streamed ==
    /\ call.pc = "responded" /\ call.route = "stream"
    /\ call.hasRange /\ FileFound(call.video, call.fs)

\* C21: for an existing artifact of S bytes and the header bytes=a-b with
\* 0 <= a <= b < S the stream route answers 206 with Content-Range
\* bytes a-b/S, Content-Length b-a+1 and a body of the b-a+1 bytes from
\* offset a on.
C21_ClosedRangeIs206 ==
    \A a, b \in Offsets :
        (Streamed /\ call.range = ClosedRange(a, b)
            /\ a <= b /\ b < call.video.size) =>
            /\ call.response.status = 206
            /\ call.response.contentRange =
                  [start |-> a, end |-> b, size |-> call.video.size]
            /\ call.response.contentLength = (b - a) + 1
            /\ call.response.body = [from |-> a, count |-> (b - a) + 1]

\* bytes=2-9 of a file of 10 bytes has been served.
C21_Witness ==
    /\ Streamed /\ call.video.size = 10 /\ call.range = ClosedRange(2, 9)
    /\ call.response.status = 206
    /\ call.response.body = [from |-> 2, count |-> 8]

\* C22: for an existing artifact of S bytes and the header bytes=a- with
\* 0 <= a < S the stream route answers 206 for the bytes a to S-1:
\* Content-Range bytes a-(S-1)/S, Content-Length S-a, and those bytes as body.
C22_OpenRangeRunsToEnd ==
    \A a \in Offsets :
        (Streamed /\ call.range = OpenRange(a) /\ a < call.video.size) =>
            /\ call.response.status = 206
            /\ call.response.contentRange =
                  [start |-> a, end |-> call.video.size - 1,
                   size |-> call.video.size]
            /\ call.response.contentLength = call.video.size - a
            /\ call.response.body = [from |-> a, count |-> call.video.size - a]

\* bytes=3- of a file of 10 bytes has been served.
C22_Witness ==
    /\ Streamed /\ call.video.size = 10 /\ call.range = OpenRange(3)
    /\ call.response.status = 206
    /\ call.response.contentLength = 7

\* C30: every 206 of the stream route has bounds with 0 <= start <= end <=
\* S-1 and a Content-Length equal to the number of body bytes sent, whatever
\* the range header.
C30_Every206IsWellFormed ==
    (call.pc = "responded" /\ call.response.status = 206) =>
        /\ 0 <= call.response.contentRange.start
        /\ call.response.contentRange.start <= call.response.contentRange.end
        /\ call.response.contentRange.end <= call.video.size - 1
        /\ call.response.contentLength = call.response.body.count

\* C23: the download, download-image and serve-image routes each answer with
\* the bytes of the artifact when it exists, and with HTTP 404 and an
\* {error, details} body when it does not.
C23_ArtifactBytesOr404 ==
    (call.pc = "responded"
        /\ call.route \in {"download", "download-image", "serve-image"}
        /\ call.fs = "ok") =>
        LET file == IF call.route = "download" THEN call.video ELSE call.image
        IN  IF file.exists
            THEN /\ call.response.kind = "bytes"
                 /\ call.response.body = [from |-> 0, count |-> file.size]
            ELSE /\ call.response.status = 404
                 /\ call.response.kind = "error"

\* C31: the stream route answers 404 only when the artifact of the job id is
\* absent: with the artifact present and readable no range header, one with
\* start greater than end or with a non-numeric start included, gives the 404.
C31_Stream404OnlyWhenAbsent ==
    (call.pc = "responded" /\ call.route = "stream"
        /\ call.response.status = 404 /\ call.fs = "ok") =>
        ~call.video.exists

\* C34: the GET routes download, download-image, serve-image, stream, status
\* and health create, change and delete no file: the artifacts and the working
\* directories are the same after each request as before it, whether it
\* succeeds or answers 404.
C34_GetRoutesWriteNothing ==
    [][(call.pc = "request" /\ call'.pc = "responded") =>
          /\ call'.video = call.video
          /\ call'.image = call.image
          /\ UNCHANGED <<workdir, output, job>>]_vars

\* A range of an existing artifact has been streamed and the artifact is as
\* it was.
C34_Witness ==
    /\ call.pc = "responded" /\ call.route = "stream"
    /\ call.response.status = 206
    /\ call.video = [exists |-> TRUE, size |-> MaxSize]

----------------------------------------------------------------------------
\* The engine commands, each builder run on its own: stitchVideos (concat),
\* addAudioToVideo / addAudioAndOverlayToVideo (compose) and addOverlayToImage.
\* A command is its inputs in the order they are declared, its filters, the
\* streams it maps and its other output options.  A text built from a template
\* is the sequence of its pieces.

\* A stream of an input ([1:a], 0:v:0) or a labelled pad ([music]).
InputStream(i, s) == [input |-> i, name |-> s]

Pad(label) == [input |-> 0 - 1, name |-> label]

\* A property of a request body that is not given.
Undefined == "undefined"

\* const { position = 'bottom-right', size = '150', margin = '20' } =
\* overlayOptions: a default stands in for a property that is undefined.
DefaultTo(value, default) == IF value = Undefined THEN default ELSE value

DefaultPosition == "bottom-right"

DefaultSize == "150"

DefaultMargin == "20"

\* Faulty variant of OverlayXY: the margin is left out at the far edges.
OverlayXYFlushRight(v, fn, position, margin) ==
    CASE position = "top-left" -> [x |-> <<margin>>, y |-> <<margin>>]
      [] position = "top-right" -> [x |-> <<"W-w">>, y |-> <<margin>>]
      [] position = "bottom-left" -> [x |-> <<margin>>, y |-> <<"H-h">>]
      [] OTHER -> [x |-> <<"W-w">>, y |-> <<"H-h">>]

\* switch (position): the x and y expressions of the overlay filter.  The
\* switch of part_000's video compose names 'bottom-right' next to default;
\* the other switches reach it through default.
OverlayXY(v, fn, position, margin) ==
    CASE position = "top-left" -> [x |-> <<margin>>, y |-> <<margin>>]
      [] position = "top-right" -> [x |-> <<"W-w-", margin>>, y |-> <<margin>>]
      [] position = "bottom-left" -> [x |-> <<margin>>, y |-> <<"H-h-", margin>>]
      [] v = "part_000" /\ fn = "compose" /\ position = "bottom-right" ->
            [x |-> <<"W-w-", margin>>, y |-> <<"H-h-", margin>>]
      [] OTHER -> [x |-> <<"W-w-", margin>>, y |-> <<"H-h-", margin>>]

\* The overlay options after destructuring, and the placement they give.
Placement(v, fn, options) ==
    LET position == DefaultTo(options.position, DefaultPosition)
        size     == DefaultTo(options.size, DefaultSize)
        margin   == DefaultTo(options.margin, DefaultMargin)
    IN  [size |-> size, at |-> OverlayXY(v, fn, position, margin)]

\* No placement: a filter without one.
NoPlacement == [size |-> "", at |-> [x |-> <<>>, y |-> <<>>]]

\* One filter of a filter graph: the pads it reads, its name, its counts
\* (concat only), its placement (scale and overlay only), the pad it writes
\* and the kind of stream that pad carries.
Filter(ins, name, counts, place, out, kind) ==
    [ins |-> ins, name |-> name, counts |-> counts, place |-> place,
     out |-> out, kind |-> kind]

NoCounts == [n |-> 0 - 1, v |-> 0 - 1, a |-> 0 - 1]

\* Faulty variant of MusicFilter: the music is mixed from the video's audio.
MusicFilterFromVideo ==
    Filter(<<InputStream(0, "a")>>, "volume=1.0", NoCounts, NoPlacement,
           "music", "a")

\* `[1:a]volume=1.0[music]`
MusicFilter ==
    Filter(<<InputStream(1, "a")>>, "volume=1.0", NoCounts, NoPlacement,
           "music", "a")

\* Faulty variant of VideoCodec: stream copy with and without overlay.
VideoCodecAlwaysCopy(overlay) == {<<"-c:v", "copy">>}

\* '-c:v', 'copy' is among the output options of the branch without overlay
\* only.
VideoCodec(overlay) == IF overlay THEN {} ELSE {<<"-c:v", "copy">>}

\* The label of the overlay filter's output pad: [vout] in part_000, [v] in
\* part_001.
VideoOut(v) == IF v = "part_000" THEN "vout" ELSE "v"

\* The inputs of the compose command: the video, the music and, in part_000,
\* the overlay image when there is one.  part_001 declares no third input.
ComposeInputs(v, overlay) ==
    IF overlay /\ v = "part_000" THEN <<"video", "music", "overlay">>
    ELSE <<"video", "music">>

\* addAudioToVideo (server.js) and addAudioAndOverlayToVideo.
ComposeCommand(v, overlay, options) ==
    LET place == Placement(v, "compose", options)
    IN  [inputs |-> ComposeInputs(v, overlay),
         filters |->
            IF overlay
            THEN <<MusicFilter,
                   Filter(<<InputStream(2, "v")>>, "scale", NoCounts,
                          [place EXCEPT !.at = NoPlacement.at], "overlay", "v"),
                   Filter(<<InputStream(0, "v"), Pad("overlay")>>,
                          "overlay:format=auto,format=yuv420p", NoCounts,
                          [place EXCEPT !.size = ""], VideoOut(v), "v")>>
            ELSE <<MusicFilter>>,
         maps |-> IF overlay THEN <<Pad(VideoOut(v)), Pad("music")>>
                  ELSE <<InputStream(0, "v:0"), Pad("music")>>,
         options |-> VideoCodec(overlay)
                     \cup {<<"-c:a", "aac">>, <<"-shortest", "">>}]

\* addOverlayToImage
ImageCommand(v, options) ==
    LET place == Placement(v, "image", options)
    IN  [inputs |-> <<"base", "overlay">>,
         filters |->
            <<Filter(<<InputStream(1, "v")>>, "scale", NoCounts,
                     [place EXCEPT !.at = NoPlacement.at], "overlay", "v"),
              Filter(<<InputStream(0, "v"), Pad("overlay")>>, "overlay",
                     NoCounts, [place EXCEPT !.size = ""], "out", "v")>>,
         maps |-> <<Pad("out")>>,
         options |-> {<<"-vframes", "1">>}]

\* Faulty variant of ConcatPads: the audio of every input is selected too.
ConcatPadsWithAudio(videoPaths) ==
    [k \in 1 .. 2 * Len(videoPaths) |->
        InputStream((k - 1) \div 2, IF k % 2 = 1 THEN "v" ELSE "a")]

\* videoPaths.map((_, index) => `[${index}:v]`)
ConcatPads(videoPaths) ==
    [k \in 1 .. Len(videoPaths) |-> InputStream(k - 1, "v")]

\* stitchVideos
ConcatCommand(videoPaths) ==
    [inputs |-> videoPaths,
     filters |-> <<Filter(ConcatPads(videoPaths), "concat",
                          [n |-> Len(videoPaths), v |-> 1, a |-> 0],
                          NoPlacement, "outv", "v")>>,
     maps |-> <<Pad("outv")>>,
     options |-> {}]

\* The overlay_options of a request: each property given or not.
OverlayOptions ==
    [position : {Undefined, "top-left", "top-right", "bottom-left",
                 "bottom-right", "center"},
     size : {Undefined, "80"},
     margin : {Undefined, "5"}]

NoOptions == [position |-> Undefined, size |-> Undefined, margin |-> Undefined]

\* Local files a concat is given.
ScenePaths == {"video_001.mp4", "video_002.mp4"}

PathLists == UNION {[1 .. n -> ScenePaths] : n \in 0 .. MaxListLen}

NoCommand == [inputs |-> <<>>, filters |-> <<>>, maps |-> <<>>, options |-> {}]

\* A builder about to run.  server.js composes without overlay and has no
\* image route.
GraphCalls(v) ==
    [pc : {"args"}, fn : {"concat"}, videoPaths : PathLists,
     overlay : {FALSE}, options : {NoOptions}, command : {NoCommand}]
    \cup
    [pc : {"args"}, fn : {"compose"}, videoPaths : {<<>>},
     overlay : {FALSE}, options : {NoOptions}, command : {NoCommand}]
    \cup
    [pc : {"args"},
     fn : IF v = "server" THEN {} ELSE {"compose", "image"},
     videoPaths : {<<>>},
     overlay : {TRUE}, options : OverlayOptions, command : {NoCommand}]

GraphInit ==
    /\ ver \in Versions
    /\ job = [j \in JobIds |-> IdleJob]
    /\ workdir = {}
    /\ output = {}
    /\ statusResp = NoStatus
    /\ call \in GraphCalls(ver)

BuildConcat ==
    /\ call.pc = "args" /\ call.fn = "concat"
    /\ call' = [call EXCEPT !.pc = "built",
                            !.command = ConcatCommand(call.videoPaths)]
    /\ UNCHANGED <<ver, job, workdir, output, statusResp>>

BuildCompose ==
    /\ call.pc = "args" /\ call.fn = "compose"
    /\ call' = [call EXCEPT !.pc = "built",
                            !.command = ComposeCommand(ver, call.overlay,
                                                       call.options)]
    /\ UNCHANGED <<ver, job, workdir, output, statusResp>>

BuildImage ==
    /\ call.pc = "args" /\ call.fn = "image"
    /\ call' = [call EXCEPT !.pc = "built",
                            !.command = ImageCommand(ver, call.options)]
    /\ UNCHANGED <<ver, job, workdir, output, statusResp>>

GraphNext == BuildConcat \/ BuildCompose \/ BuildImage

GraphSpec == GraphInit /\ [][GraphNext]_vars

\* A builder has produced its command.
Built(fn) == call.pc = "built" /\ call.fn = fn

\* The last filter of the command: the overlay filter of a compose or image
\* command with overlay.
LastFilter == call.command.filters[Len(call.command.filters)]

\* The scale filter that feeds the overlay filter.
ScaleFilter == call.command.filters[Len(call.command.filters) - 1]

\* The placement the overlay options ask for, position by position.
AskedPlacement ==
    LET m == IF call.options.margin = Undefined THEN "20"
             ELSE call.options.margin
        p == IF call.options.position = Undefined THEN "bottom-right"
             ELSE call.options.position
    IN  IF p = "top-left" THEN [x |-> <<m>>, y |-> <<m>>]
        ELSE IF p = "top-right" THEN [x |-> <<"W-w-", m>>, y |-> <<m>>]
        ELSE IF p = "bottom-left" THEN [x |-> <<m>>, y |-> <<"H-h-", m>>]
        ELSE [x |-> <<"W-w-", m>>, y |-> <<"H-h-", m>>]

\* C24: in the video compose and in the image compose alike the overlay is
\* placed at (margin, margin) for top-left, (W-w-margin, margin) for
\* top-right, (margin, H-h-margin) for bottom-left and (W-w-margin,
\* H-h-margin) for bottom-right; a position left out is bottom-right, a size
\* left out is 150 and a margin left out is 20.
C24_OverlayPlacement ==
    \A fn \in {"compose", "image"} :
        (Built(fn) /\ call.overlay
            /\ call.options.position \in
                  {Undefined, "top-left", "top-right", "bottom-left",
                   "bottom-right"}) =>
            /\ LastFilter.ins = <<InputStream(0, "v"), Pad("overlay")>>
            /\ LastFilter.place.at = AskedPlacement
            /\ ScaleFilter.out = "overlay"
            /\ ScaleFilter.place.size =
                  (IF call.options.size = Undefined THEN "150"
                   ELSE call.options.size)

\* An image command with position top-right and no margin given has been
\* built.
C24_Witness ==
    /\ Built("image") /\ call.options.position = "top-right"
    /\ call.options.margin = Undefined /\ call.options.size = Undefined
    /\ LastFilter.place.at = [x |-> <<"W-w-", "20">>, y |-> <<"20">>]
    /\ ScaleFilter.place.size = "150"

\* The filters of the command that write the pad of this label.
Writers(label) ==
    {k \in 1 .. Len(call.command.filters) : call.command.filters[k].out = label}

\* C25: a compose command asks for video stream copy exactly when no overlay
\* is supplied; with an overlay the video it maps is the output pad of the
\* overlay filter.
C25_CopyIffNoOverlay ==
    Built("compose") =>
        /\ (<<"-c:v", "copy">> \in call.command.options) <=> ~call.overlay
        /\ ~call.overlay => call.command.maps[1] = InputStream(0, "v:0")
        /\ call.overlay =>
              /\ call.command.maps[1].input < 0
              /\ Writers(call.command.maps[1].name) =
                    {Len(call.command.filters)}
              /\ LastFilter.ins = <<InputStream(0, "v"), Pad("overlay")>>

\* A compose command with overlay has been built in part_001.
C25_Witness ==
    /\ Built("compose") /\ call.overlay /\ ver = "part_001"
    /\ call.command.maps[1] = Pad("v")
    /\ <<"-c:v", "copy">> \notin call.command.options

\* The inputs a mapped stream is derived from, through the filters.
RECURSIVE DerivedFrom(_)
DerivedFrom(pad) ==
    IF pad.input >= 0 THEN {pad.input}
    ELSE UNION {UNION {DerivedFrom(call.command.filters[k].ins[i]) :
                          i \in 1 .. Len(call.command.filters[k].ins)} :
                   k \in Writers(pad.name)}

\* A mapped stream is audio: an audio stream of an input, or a pad an audio
\* filter writes.
IsAudio(pad) ==
    IF pad.input >= 0 THEN pad.name \in {"a", "a:0"}
    ELSE \E k \in Writers(pad.name) : call.command.filters[k].kind = "a"

AudioMaps ==
    {k \in 1 .. Len(call.command.maps) : IsAudio(call.command.maps[k])}

\* C26: every compose command maps exactly one audio stream, that stream is
\* derived from input 1 and from no stream of the video, no filter reads the
\* video's audio, and -shortest is set.
C26_OneAudioFromInput1 ==
    Built("compose") =>
        /\ Cardinality(AudioMaps) = 1
        /\ \A k \in AudioMaps : DerivedFrom(call.command.maps[k]) = {1}
        /\ call.command.inputs[2] = "music"
        /\ \A k \in 1 .. Len(call.command.filters) :
              \A i \in 1 .. Len(call.command.filters[k].ins) :
                  call.command.filters[k].ins[i] # InputStream(0, "a")
        /\ <<"-shortest", "">> \in call.command.options

\* A compose command without overlay has been built in server.js.
C26_Witness ==
    /\ Built("compose") /\ ~call.overlay /\ ver = "server"
    /\ call.command.maps = <<InputStream(0, "v:0"), Pad("music")>>
    /\ DerivedFrom(Pad("music")) = {1}

\* C27: for N >= 1 paths the concat command declares N inputs, the paths in
\* list order, selects the video stream of each input 0 .. N-1 and nothing
\* else, concatenates with n=N, v=1, a=0 and maps the single output pad.
C27_ConcatOfNInputs ==
    (Built("concat") /\ Len(call.videoPaths) >= 1) =>
        LET N == Len(call.videoPaths)
        IN  /\ call.command.inputs = call.videoPaths
            /\ Len(call.command.filters) = 1
            /\ LastFilter.name = "concat"
            /\ Len(LastFilter.ins) = N
            /\ \A k \in 1 .. N : LastFilter.ins[k] = InputStream(k - 1, "v")
            /\ LastFilter.counts = [n |-> N, v |-> 1, a |-> 0]
            /\ call.command.maps = <<Pad(LastFilter.out)>>

\* A concat of three paths has been built.
C27_Witness ==
    /\ Built("concat")
    /\ call.videoPaths = <<"video_001.mp4", "video_002.mp4", "video_001.mp4">>
    /\ LastFilter.counts.n = 3
    /\ LastFilter.ins[3] = InputStream(2, "v")

----------------------------------------------------------------------------
\* Properties.

\* The job passed validation and its response has been sent.
Responded(j) == job[j].phase = "done" /\ job[j].http \in {200, 500}

Succeeded(j) == job[j].phase = "done" /\ job[j].http = 200

\* statusResp is the response to a status request for id.
StatusFor(id) == statusResp.http # 0 /\ statusResp.jobId = id

HasArtifact(j) == <<"video", j>> \in output \/ <<"image", j>> \in output

\* C1: when the response of a job that passed validation is sent, on success
\* and after a failure at any stage, the working directory <temp>/<jobId> does
\* not exist.
C1_NoWorkdirAtResponse ==
    \A j \in JobIds : Responded(j) => j \notin workdir

\* C2: a job whose stages all succeeded and whose artifact is written responds
\* with success:true (HTTP 200), never with HTTP 500, whatever the removal of
\* its working directory does.
C2_CleanupFailureKeepsSuccess ==
    \A j \in JobIds :
        (job[j].finalized /\ job[j].phase = "done")
            => (job[j].http = 200 /\ job[j].success = "true")

\* C3: once a job has responded with HTTP 500, neither final_video_<jobId>.mp4
\* nor final_image_<jobId>.png exists for its id.
C3_NoArtifactAfterFailure ==
    \A j \in JobIds :
        (job[j].phase = "done" /\ job[j].http = 500) => ~HasArtifact(j)

\* C4: a status request for a job whose response is not yet sent is answered
\* with status "processing" and completed:false, at every stage of the job.
C4_RunningJobIsProcessing ==
    \A j \in JobIds :
        (StatusFor(j) /\ Running(job[j]))
            => (statusResp.status = "processing" /\ ~statusResp.completed)

\* C5: a status request for a job of any variant that has responded with
\* success is answered with status "completed" and completed:true.
C5_SucceededJobIsCompleted ==
    \A j \in JobIds :
        (StatusFor(j) /\ Succeeded(j))
            => (statusResp.status = "completed" /\ statusResp.completed)

\* C6: once a fetch, probe or transform stage of a job has failed, the job
\* starts no later stage (it is in its error path) and its response is HTTP 500
\* with success:false and its own job id.
C6_FailureAbortsWith500 ==
    \A j \in JobIds :
        job[j].failed =>
            /\ job[j].phase \in {"catch", "respond_err", "done"}
            /\ job[j].phase = "done" =>
                  /\ job[j].http = 500
                  /\ job[j].success = "false"
                  /\ job[j].respJobId = j

\* C7: a request that misses a required field (or whose videos is no array)
\* is answered with HTTP 400 at once: its handler never enters a stage (so it
\* issues no fetch), no working directory is created and no artifact written.
C7_InvalidRequestIs400 ==
    \A j \in JobIds :
        (job[j].phase # "idle" /\ job[j].missing) =>
            /\ job[j].phase = "done"
            /\ job[j].http = 400
            /\ j \notin workdir
            /\ ~HasArtifact(j)

C7_Witness ==
    \E j, k \in JobIds :
        /\ job[j].missing /\ job[j].http = 400 /\ job[j].variant = "stitch"
        /\ k # j /\ k \in workdir /\ Running(job[k])

\* C8: in a successful job the artifact exists in the output directory when
\* the working directory is about to be removed, after the removal and after
\* the response.
C8_ArtifactOutlivesWorkdir ==
    \A j \in JobIds :
        (Cur(j) = "rm" \/ job[j].phase = "respond" \/ Succeeded(j))
            => FinalPath(j) \in output

C8_Witness ==
    \E j \in JobIds :
        Succeeded(j) /\ j \notin workdir /\ FinalPath(j) \in output

\* C9: the status response depends on the presence of the artifact alone:
\* whenever final_video_<jobId>.mp4 exists the status is "completed", whatever
\* the outcome of the other calls of the handler.
C9_StatusFollowsArtifact ==
    \A id \in QueryIds :
        (StatusFor(id) /\ <<"video", id>> \in output)
            => statusResp.status = "completed"

\* No request has been given this id.
NeverAJob(id) == id \notin JobIds \/ job[id].phase = "idle"

\* C10: a status request for an id that no job ever had is answered with HTTP
\* 200, status "processing" and completed:false, and the request changes
\* neither a job nor the filesystem.
C10_UnknownIdIsProcessing ==
    /\ [](\A id \in QueryIds :
            (StatusFor(id) /\ NeverAJob(id)) =>
                /\ statusResp.http = 200
                /\ statusResp.status = "processing"
                /\ ~statusResp.completed)
    /\ [][statusResp' # NoStatus => UNCHANGED <<job, workdir, output>>]_vars

\* C13: the overlayApplied flag of a success response is true exactly when an
\* overlay was composited into the artifact: not true for a request without
\* overlay_image_url, and not true when the image engine failed and the base
\* image was delivered.
C13_OverlayAppliedIsTruthful ==
    \A j \in JobIds :
        Succeeded(j) => (job[j].overlayApplied = "true" <=> job[j].composited)

\* C14: when the image engine fails and the base image is copied to the output
\* path, the job goes on to the stat of final_image_<jobId>.png instead of
\* entering its error path, and if no later stage fails it responds with
\* success and the artifact in place.
C14_ImageEngineFailureDegrades ==
    /\ [][\A j \in JobIds :
            (~job[j].degraded /\ job'[j].degraded) =>
                /\ job'[j].phase = "run"
                /\ ~job'[j].failed
                /\ Stages(ver, job'[j])[job'[j].step] = "stat"
                /\ <<"image", j>> \in output']_vars
    /\ [](\A j \in JobIds :
            (job[j].degraded /\ job[j].phase = "done" /\ ~job[j].failed) =>
                /\ job[j].http = 200
                /\ job[j].success = "true"
                /\ <<"image", j>> \in output)

C14_Witness ==
    \E j \in JobIds :
        /\ job[j].degraded /\ ~job[j].composited
        /\ Succeeded(j)
        /\ <<"image", j>> \in output
        /\ j \notin workdir

\* C15: every job that passed validation eventually sends its response, given
\* that every transfer and every engine run ends (a transfer that breaks off
\* inside the body has ended, with an error).
C15_ValidatedJobResponds ==
    \A j \in JobIds : (job[j].phase = "run") ~> (job[j].phase = "done")

\* The ids whose working directory or whose artifact a step creates or removes.
TouchedIds ==
    {k \in QueryIds :
        \/ (k \in workdir) # (k \in workdir')
        \/ (<<"video", k>> \in output) # (<<"video", k>> \in output')
        \/ (<<"image", k>> \in output) # (<<"image", k>> \in output')}

\* C16: in every interleaving of the jobs, a step that creates or removes a
\* working directory or an artifact touches the paths of one job id only, and
\* it is a step of the handler of that very job: no job creates, writes or
\* removes the working directory or the artifact of another.
C16_JobsTouchOwnPathsOnly ==
    [][\A k \in TouchedIds :
          /\ TouchedIds = {k}
          /\ k \in JobIds
          /\ Running(job[k])
          /\ \A i \in JobIds \ {k} : job'[i] = job[i]]_vars

\* The state of the job state machine (Created 0, FetchingAssets 1, Probing 2,
\* Transforming 3, Finalizing 4) that a stage of a handler belongs to.
StageRank(stage) ==
    CASE stage = "mkdir" -> 0
      [] stage \in FetchStages -> 1
      [] stage = "probe" -> 2
      [] stage \in {"concat", "trim", "compose", "overlay_image"} -> 3
      [] OTHER -> 4

\* How far a handler has come: not entered, in its try block, past it (about
\* to respond, or in catch), about to send the error response, responded.
PhaseRank(phase) ==
    CASE phase = "idle" -> 0
      [] phase = "run" -> 1
      [] phase \in {"respond", "catch", "stalled"} -> 2
      [] phase = "respond_err" -> 3
      [] OTHER -> 4

\* C17 as stated: a job is never at a stage with a stage of a later state of
\* Created, FetchingAssets, Probing, Transforming, Finalizing behind it (no
\* fetch after a probe or a transform, no probe after a transform), and a job
\* that has responded never changes again.
C17_NoEarlierStateAgain ==
    /\ [](\A j \in JobIds :
            job[j].phase = "run" =>
                \A t \in 1 .. (job[j].step - 1) :
                    StageRank(Stages(ver, job[j])[t]) <= StageRank(Cur(j)))
    /\ [][\A j \in JobIds : job[j].phase = "done" => job'[j] = job[j]]_vars

\* C17 as amended: a job moves only forward along the awaits of its own
\* handler (it never returns to an earlier one and never changes its stage
\* list), from there only towards its response, and a job that has responded
\* never changes again.
C17_ForwardAlongHandler ==
    [][\A j \in JobIds :
          /\ job[j].phase = "done" => job'[j] = job[j]
          /\ PhaseRank(job'[j].phase) >= PhaseRank(job[j].phase)
          /\ (job[j].phase = "run" /\ job'[j].phase = "run") =>
                /\ job'[j].step >= job[j].step
                /\ Stages(ver, job'[j]) = Stages(ver, job[j])]_vars

\* An add-overlay job fetches its overlay with the probe and the trim behind
\* it, and a stitch job probes with the concatenation behind it.
C17_Witness ==
    \E j, k \in JobIds :
        /\ job[j].variant = "single" /\ Cur(j) = "fetch_overlay"
        /\ job[k].variant = "stitch" /\ Cur(k) = "probe"

\* The place of a stage in the order of the stitch variant: audio fetch 1,
\* overlay fetch 2, scene fetches 3, concatenation 4, probe 5, audio trim 6,
\* compose 7, finalize 8.
StitchRank(stage) ==
    CASE stage = "mkdir" -> 0
      [] stage = "fetch_audio" -> 1
      [] stage = "fetch_overlay" -> 2
      [] stage = "fetch_scene" -> 3
      [] stage = "concat" -> 4
      [] stage = "probe" -> 5
      [] stage = "trim" -> 6
      [] stage = "compose" -> 7
      [] OTHER -> 8

StitchRunning(j) == job[j].variant = "stitch" /\ job[j].phase = "run"

\* The stages behind a running stitch job all come before its current one in
\* the order of the variant.
StitchStagesInOrder(j) ==
    \A t \in 1 .. (job[j].step - 1) :
        StitchRank(Stages(ver, job[j])[t]) <= StitchRank(Cur(j))

C19_FailedFetchEndsJob ==
    /\ [](\A j \in JobIds :
            job[j].fetchFailed =>
                /\ job[j].phase \in {"catch", "respond_err", "done"}
                /\ job[j].phase = "done" =>
                      (job[j].http = 500 /\ job[j].success = "false"))
    /\ [][\A j \in JobIds :
            (Cur(j) \in FetchStages /\ job'[j] # job[j]) =>
                ~(job'[j].phase = "run" /\ job'[j].step = job[j].step)]_vars

\* C20: a job whose probe reported no duration does not go on in its try block
\* (it fails with HTTP 500), and the audio trim is never reached without a
\* probed duration.
C20_MissingDurationFailsJob ==
    \A j \in JobIds :
        /\ job[j].phase = "run" => job[j].dur # "missing"
        /\ Cur(j) = "trim" => job[j].dur = "ok"

\* C33: the concat transform is never invoked with an empty list of paths:
\* every stitch request that passes validation and reaches the concatenation
\* has at least one scene.
C33_ConcatHasAScene ==
    \A j \in JobIds : Cur(j) = "concat" => job[j].nvideos >= 1

\* C35: a request to a job endpoint sends at most one response on every path:
\* one of 400, 200 success and 500 failure, never two of them, and nothing
\* follows a response that was sent.
C35_AtMostOneResponse ==
    /\ [](\A j \in JobIds :
            /\ job[j].sent <= 1
            /\ job[j].sent = 1 <=> job[j].phase = "done"
            /\ job[j].phase = "done" =>
                  \/ job[j].http = 400 /\ job[j].success = "none"
                  \/ job[j].http = 200 /\ job[j].success = "true"
                  \/ job[j].http = 500 /\ job[j].success = "false")
    /\ [][\A j \in JobIds : job[j].phase = "done" => job'[j] = job[j]]_vars

\* One request has been answered with success and another with a failure,
\* each once.
C35_Witness ==
    \E j, k \in JobIds :
        /\ job[j].phase = "done" /\ job[j].http = 200 /\ job[j].sent = 1
        /\ job[k].phase = "done" /\ job[k].http = 500 /\ job[k].sent = 1

====
